---- MODULE Spec2Model ----
(***************************************************************************)
(* Model of vscode/src/completions/get-current-doc-context.ts:             *)
(*   levenshteinDistance, semanticSimilarity,                              *)
(*   getSemanticContextWithinDocument and getCurrentDocContext.            *)
(*                                                                         *)
(* Strings are sequences of one-character strings.  A document is the      *)
(* sequence of its lines (lineCount = Len(document)); its text is the      *)
(* newline-join of the lines.  Lines, positions and offsets are 0-based as *)
(* in the source; TLA+ sequences are 1-based, hence the +1 in indexing.    *)
(* JavaScript numbers produced by semanticSimilarity are modelled as exact *)
(* fractions plus the NaN value that 0/0 yields.                           *)
(*                                                                         *)
(* Not modelled: getPrevNonEmptyLine, getNextNonEmptyLine, detectMultiline *)
(* (imported collaborators; they only add fields to the returned object).  *)
(***************************************************************************)
EXTENDS Integers, Sequences, FiniteSets, TLC

VARIABLES
    pc,                 \* "start" | "done" | "threw" | name of the function applied
    document,           \* vscode.TextDocument: sequence of line texts
    position,           \* vscode.Position: [line, character]
    maxPrefixLength,
    maxSuffixLength,
    context,            \* context?.selectedCompletionInfo: [selected, character, text]
    completePrefixWithContextCompletion,
    docContext,         \* the DocumentContext returned by getCurrentDocContext
    k,                  \* window size of getSemanticContextWithinDocument
    mostSimilarContext, \* the SemanticContext returned by the search
    text1,
    text2,
    distance,           \* result of levenshteinDistance(text1, text2)
    similarity          \* result of semanticSimilarity(text1, text2)

vars == <<pc, document, position, maxPrefixLength, maxSuffixLength, context,
          completePrefixWithContextCompletion, docContext, k, mostSimilarContext,
          text1, text2, distance, similarity>>

builderVars == <<maxPrefixLength, maxSuffixLength, context,
                 completePrefixWithContextCompletion, docContext>>
searchVars == <<k, mostSimilarContext>>
similarityVars == <<text1, text2, distance, similarity>>

-----------------------------------------------------------------------------
(* Bounds *)

\* longest document text (characters, newlines included) of the builder runs
MaxDocLen == 5
\* longest replacement text of a SelectedCompletionInfo
MaxTextLen == 2
\* largest maxPrefixLength / maxSuffixLength
MaxCap == 2
\* longest line of "a"s in the documents of the search runs
MaxLineLen == 2
\* largest lineCount of the documents of the search runs
MaxLines == 4
\* largest window size k of the search runs
MaxK == 3
\* longest string handed to levenshteinDistance / semanticSimilarity
MaxLen == 3

\* the window size getCurrentDocContext passes to the search
SemanticWindow == 5

-----------------------------------------------------------------------------
(* Strings *)

NL == "\n"
Letters == {"a", "b"}

SeqsUpTo(S, n) == UNION {[1..m -> S] : m \in 0..n}

Max(x, y) == IF x > y THEN x ELSE y
Min(x, y) == IF x < y THEN x ELSE y

\* String.prototype.slice(start) / slice(start, end), 0-based, with JavaScript's
\* treatment of negative and out-of-range indices.
SliceIndex(s, i) == IF i < 0 THEN Max(Len(s) + i, 0) ELSE Min(i, Len(s))
slice(s, start, end) == SubSeq(s, SliceIndex(s, start) + 1, SliceIndex(s, end))
sliceFrom(s, start) == SubSeq(s, SliceIndex(s, start) + 1, Len(s))

\* Array.prototype.join('\n')
RECURSIVE join(_)
join(ls) ==
    IF ls = <<>> THEN <<>>
    ELSE IF Len(ls) = 1 THEN ls[1]
    ELSE ls[1] \o <<NL>> \o join(Tail(ls))

\* lines(text) of ./text-processing: text.split on newlines; always at least
\* one line, empty segments kept.
RECURSIVE lines(_)
lines(text) ==
    IF \A i \in 1..Len(text) : text[i] # NL THEN <<text>>
    ELSE LET i == CHOOSE i \in 1..Len(text) :
                      text[i] = NL /\ \A j \in 1..(i - 1) : text[j] # NL
         IN <<SubSeq(text, 1, i - 1)>> \o lines(SubSeq(text, i + 1, Len(text)))

-----------------------------------------------------------------------------
(* JavaScript numbers: exact fractions num/den (den > 0), or NaN *)

NaN == [nan |-> TRUE, num |-> 0, den |-> 1]
Num(n, d) == [nan |-> FALSE, num |-> n, den |-> d]
Zero == Num(0, 1)

\* x + y : NaN is absorbing
Plus(x, y) ==
    IF x.nan \/ y.nan THEN NaN
    ELSE Num(x.num * y.den + y.num * x.den, x.den * y.den)

\* x > y : false whenever an operand is NaN
Greater(x, y) == ~x.nan /\ ~y.nan /\ x.num * y.den > y.num * x.den

\* x >= y : false whenever an operand is NaN
GreaterEq(x, y) == ~x.nan /\ ~y.nan /\ x.num * y.den >= y.num * x.den

\* x === y : false whenever an operand is NaN
NumEq(x, y) == ~x.nan /\ ~y.nan /\ x.num * y.den = y.num * x.den

-----------------------------------------------------------------------------
(* levenshteinDistance, semanticSimilarity *)

Min3(x, y, z) == Min(x, Min(y, z))

\* levenshteinDistance with the substitution cost charged on a match too
levenshteinDistanceNoMatch(t1, t2) ==
    IF Len(t1) = 0 THEN Len(t2)
    ELSE IF Len(t2) = 0 THEN Len(t1)
    ELSE LET matrix[i \in 0..Len(t2), j \in 0..Len(t1)] ==
                 IF i = 0 THEN j
                 ELSE IF j = 0 THEN i
                 ELSE Min3(matrix[i - 1, j] + 1,
                           matrix[i, j - 1] + 1,
                           matrix[i - 1, j - 1] + 1)
         IN matrix[Len(t2), Len(t1)]

levenshteinDistance(t1, t2) ==
    IF Len(t1) = 0 THEN Len(t2)
    ELSE IF Len(t2) = 0 THEN Len(t1)
    ELSE LET matrix[i \in 0..Len(t2), j \in 0..Len(t1)] ==
                 IF i = 0 THEN j
                 ELSE IF j = 0 THEN i
                 ELSE LET indicator == IF t1[j] = t2[i] THEN 0 ELSE 1
                      IN Min3(matrix[i - 1, j] + 1,             \* deletion
                              matrix[i, j - 1] + 1,             \* insertion
                              matrix[i - 1, j - 1] + indicator) \* substitution
         IN matrix[Len(t2), Len(t1)]

\* 1 - distance / Math.max(text1.length, text2.length); the maximum is 0 only
\* when both texts are empty, where the distance is 0 and 0 / 0 is NaN.
semanticSimilarity(t1, t2) ==
    LET dist == levenshteinDistance(t1, t2)
        m    == Max(Len(t1), Len(t2))
    IN IF m = 0 THEN NaN ELSE Num(m - dist, m)

-----------------------------------------------------------------------------
(* Specification of the two string functions *)

Texts == SeqsUpTo(Letters, MaxLen)

NoPosition == [line |-> 0, character |-> 0]
NoContext == [selected |-> FALSE, character |-> 0, text |-> <<>>]
Null == <<"null">>
NoRange == [start |-> NoPosition, end |-> NoPosition]
NoDocContext ==
    [prefix |-> <<>>, suffix |-> <<>>, contextRange |-> NoRange,
     currentLinePrefix |-> <<>>, currentLineSuffix |-> <<>>,
     semanticContext |-> <<>>, injectedPrefix |-> Null]
NoSemanticContext == [semanticContext |-> <<>>, similarityScore |-> Zero]

BuilderIdle ==
    /\ maxPrefixLength = 1
    /\ maxSuffixLength = 1
    /\ context = NoContext
    /\ completePrefixWithContextCompletion = <<>>
    /\ docContext = NoDocContext

SearchIdle ==
    /\ k = 1
    /\ mostSimilarContext = NoSemanticContext

SimilarityIdle ==
    /\ text1 = <<>>
    /\ text2 = <<>>
    /\ distance = 0
    /\ similarity = Zero

InitSimilarity ==
    /\ pc = "start"
    /\ text1 \in Texts
    /\ text2 \in Texts
    /\ distance = 0
    /\ similarity = Zero
    /\ document = <<>>
    /\ position = NoPosition
    /\ BuilderIdle
    /\ SearchIdle

LevenshteinDistance ==
    /\ pc = "start"
    /\ distance' = levenshteinDistance(text1, text2)
    /\ pc' = "levenshteinDistance"
    /\ UNCHANGED <<text1, text2, similarity, document, position>>
    /\ UNCHANGED <<builderVars, searchVars>>

SemanticSimilarity ==
    /\ pc = "start"
    /\ similarity' = semanticSimilarity(text1, text2)
    /\ pc' = "semanticSimilarity"
    /\ UNCHANGED <<text1, text2, distance, document, position>>
    /\ UNCHANGED <<builderVars, searchVars>>

NextSimilarity == LevenshteinDistance \/ SemanticSimilarity

SpecSimilarity == InitSimilarity /\ [][NextSimilarity]_vars

-----------------------------------------------------------------------------
(* Edit scripts: the strings reachable by single-character edits *)

RemoveAt(s, i) == SubSeq(s, 1, i - 1) \o SubSeq(s, i + 1, Len(s))
InsertAt(s, i, c) == SubSeq(s, 1, i) \o <<c>> \o SubSeq(s, i + 1, Len(s))

OneEdit(s) ==
    {RemoveAt(s, i) : i \in 1..Len(s)}
      \cup {[s EXCEPT ![i] = c] : i \in 1..Len(s), c \in Letters}
      \cup {InsertAt(s, i, c) : i \in 0..Len(s), c \in Letters}

RECURSIVE WithinEdits(_, _)
WithinEdits(s, n) ==
    IF n = 0 THEN {s}
    ELSE LET prev == WithinEdits(s, n - 1)
         IN prev \cup UNION {OneEdit(t) : t \in prev}

MinEdits(a, b) ==
    CHOOSE n \in 0..(Len(a) + Len(b)) :
        /\ b \in WithinEdits(a, n)
        /\ n > 0 => b \notin WithinEdits(a, n - 1)

\* C10: levenshteinDistance(a, b) is the minimum number of single-character
\* insertions, deletions and substitutions turning a into b; it is the other
\* string's length when one string is empty and never exceeds the longer length.
C10_LevenshteinIsMinEdits ==
    pc = "levenshteinDistance" =>
        /\ distance = MinEdits(text1, text2)
        /\ (text1 = <<>> => distance = Len(text2))
        /\ (text2 = <<>> => distance = Len(text1))
        /\ distance <= Max(Len(text1), Len(text2))

C10_Witness ==
    /\ pc = "levenshteinDistance"
    /\ Len(text1) > 0
    /\ Len(text2) > 0
    /\ Len(text1) # Len(text2)
    /\ distance > 0
    /\ distance < Max(Len(text1), Len(text2))

\* C8: semanticSimilarity(a, b) is a well-defined number in [0,1] for every
\* pair, the empty pair included; it is 1 - distance/max(len) when a line is
\* non-empty, 1 for (a, a) with a non-empty, and the same for (a, b) and (b, a).
C8_SimilarityWellDefined ==
    pc = "semanticSimilarity" =>
        /\ ~similarity.nan
        /\ GreaterEq(similarity, Zero)
        /\ GreaterEq(Num(1, 1), similarity)
        /\ (text1 # <<>> \/ text2 # <<>>) =>
               NumEq(similarity,
                     Num(Max(Len(text1), Len(text2)) - levenshteinDistance(text1, text2),
                         Max(Len(text1), Len(text2))))
        /\ (text1 = text2 /\ text1 # <<>>) => NumEq(similarity, Num(1, 1))
        /\ NumEq(similarity, semanticSimilarity(text2, text1))

-----------------------------------------------------------------------------
(* getSemanticContextWithinDocument *)

\* document.lineCount, document.lineAt(n).text; lineAt throws for a line
\* outside 0..lineCount-1
lineCount(doc) == Len(doc)
HasLine(doc, n) == n >= 0 /\ n < lineCount(doc)
lineAt(doc, n) == doc[n + 1]

\* Array.from({ length: k }, (_, idx) => document.lineAt(i + idx).text)
blockOfLines(doc, i, kk) == SubSeq(doc, i + 1, i + kk)

\* blockOfLines.reduce((acc, line) => acc + semanticSimilarity(currentLine, line), 0)
RECURSIVE aggregateSimilarityScore(_, _)
aggregateSimilarityScore(currentLine, block) ==
    IF block = <<>> THEN Zero
    ELSE Plus(aggregateSimilarityScore(currentLine, SubSeq(block, 1, Len(block) - 1)),
              semanticSimilarity(currentLine, block[Len(block)]))

\* the comparison with >= in place of >
IsMostSimilarSoFarOrEqual(score, highestScore) == GreaterEq(score, highestScore)

\* aggregateSimilarityScore > highestScore
IsMostSimilarSoFar(score, highestScore) == Greater(score, highestScore)

\* the for loop from start index i on; acc holds mostSimilarContext and highestScore
RECURSIVE SearchFrom(_, _, _, _, _)
SearchFrom(doc, currentLine, kk, i, acc) ==
    IF i > lineCount(doc) - kk THEN acc.mostSimilarContext
    ELSE LET block == blockOfLines(doc, i, kk)
             score == aggregateSimilarityScore(currentLine, block)
         IN IF IsMostSimilarSoFar(score, acc.highestScore)
            THEN SearchFrom(doc, currentLine, kk, i + 1,
                            [mostSimilarContext |->
                                 [semanticContext |-> block, similarityScore |-> score],
                             highestScore |-> score])
            ELSE SearchFrom(doc, currentLine, kk, i + 1, acc)

getSemanticContextWithinDocument(doc, pos, kk) ==
    SearchFrom(doc, lineAt(doc, pos.line), kk, 0,
               [mostSimilarContext |-> NoSemanticContext, highestScore |-> Zero])

-----------------------------------------------------------------------------
(* Specification of the sliding-window search *)

\* lines of "a"s of every length, and a line that shares no character with them
SearchLines == SeqsUpTo({"a"}, MaxLineLen) \cup {<<"b">>}
SearchDocuments == SeqsUpTo(SearchLines, MaxLines)

InitSearch ==
    /\ pc = "start"
    /\ document \in SearchDocuments
    /\ position \in {[line |-> l, character |-> 0] : l \in 0..Max(0, Len(document) - 1)}
    /\ k \in 1..MaxK
    /\ mostSimilarContext = NoSemanticContext
    /\ BuilderIdle
    /\ SimilarityIdle

GetSemanticContextWithinDocument ==
    /\ pc = "start"
    /\ IF HasLine(document, position.line)
       THEN /\ mostSimilarContext' = getSemanticContextWithinDocument(document, position, k)
            /\ pc' = "done"
       ELSE /\ pc' = "threw"
            /\ UNCHANGED mostSimilarContext
    /\ UNCHANGED <<document, position, k>>
    /\ UNCHANGED <<builderVars, similarityVars>>

NextSearch == GetSemanticContextWithinDocument

SpecSearch == InitSearch /\ [][NextSearch]_vars

\* the candidate start indices and the aggregate similarity of each block
Starts == 0..(lineCount(document) - k)
Aggregate(i) ==
    aggregateSimilarityScore(lineAt(document, position.line), blockOfLines(document, i, k))
SomePositiveBlock ==
    HasLine(document, position.line) /\ \E i \in Starts : Greater(Aggregate(i), Zero)

\* C6: when some block of k lines has an aggregate similarity > 0, the search
\* returns the block of maximal aggregate, with that aggregate as score, and
\* among several maximal blocks the one with the smallest start index.
C6_SearchReturnsFirstMaximum ==
    (pc = "done" /\ SomePositiveBlock) =>
        \E i \in Starts :
            /\ \A j \in Starts : GreaterEq(Aggregate(i), Aggregate(j))
            /\ \A j \in Starts : j < i => Greater(Aggregate(i), Aggregate(j))
            /\ mostSimilarContext.semanticContext = blockOfLines(document, i, k)
            /\ NumEq(mostSimilarContext.similarityScore, Aggregate(i))

C6_Witness ==
    /\ pc = "done"
    /\ SomePositiveBlock
    /\ \E i, j \in Starts :
          /\ i < j
          /\ blockOfLines(document, i, k) # blockOfLines(document, j, k)
          /\ NumEq(Aggregate(i), Aggregate(j))
          /\ \A h \in Starts : GreaterEq(Aggregate(i), Aggregate(h))
          /\ mostSimilarContext.semanticContext = blockOfLines(document, i, k)

\* C7: when no candidate block has an aggregate similarity > 0 (lineCount < k,
\* lineCount = 0, blank current line, ...), the search returns the empty block
\* with score 0 and raises no exception.
C7_NoMatchReturnsEmpty ==
    (pc # "start" /\ ~SomePositiveBlock) =>
        /\ pc = "done"
        /\ mostSimilarContext.semanticContext = <<>>
        /\ NumEq(mostSimilarContext.similarityScore, Zero)

-----------------------------------------------------------------------------
(* vscode.TextDocument: text, offsets and positions *)

\* document.getText()
getText(doc) == join(doc)

\* document.offsetAt(position), for a position inside the document
RECURSIVE offsetAt(_, _)
offsetAt(doc, pos) ==
    IF pos.line = 0 THEN pos.character
    ELSE Len(doc[1]) + 1 + offsetAt(Tail(doc), [pos EXCEPT !.line = pos.line - 1])

\* document.positionAt(offset): the offset is first adjusted into 0..length
RECURSIVE PositionFrom(_, _, _)
PositionFrom(doc, line, o) ==
    IF o <= Len(doc[line + 1]) THEN [line |-> line, character |-> o]
    ELSE PositionFrom(doc, line + 1, o - Len(doc[line + 1]) - 1)

positionAt(doc, offset) ==
    PositionFrom(doc, 0, Max(0, Min(offset, Len(getText(doc)))))

\* document.getText(new vscode.Range(start, end))
getTextRange(doc, start, end) ==
    SubSeq(getText(doc), offsetAt(doc, start) + 1, offsetAt(doc, end))

-----------------------------------------------------------------------------
(* getCurrentDocContext *)

completePrefixOf(doc, pos) == getTextRange(doc, [line |-> 0, character |-> 0], pos)
completeSuffixOf(doc, pos) == getTextRange(doc, pos, positionAt(doc, Len(getText(doc))))

\* completePrefix.slice(0, range.start.character - position.character) + text
PatchedPrefix(completePrefix, ctx, pos) ==
    IF ctx.selected
    THEN slice(completePrefix, 0, ctx.character - pos.character) \o ctx.text
    ELSE completePrefix

\* the injected prefix without the normalisation of '' to null
InjectedPrefixRaw(completePrefix, patched, ctx) ==
    IF ctx.selected THEN sliceFrom(patched, Len(completePrefix)) ELSE Null

\* completePrefixWithContextCompletion.slice(completePrefix.length), '' made null
InjectedPrefix(completePrefix, patched, ctx) ==
    IF ctx.selected
    THEN LET injected == sliceFrom(patched, Len(completePrefix))
         IN IF injected = <<>> THEN Null ELSE injected
    ELSE Null

\* the cap tests applied to the total accumulated before the current line
PrefixExceedsCapLate(total, lineLength, cap) == total > cap
SuffixExceedsCapLate(total, lineLength, cap) == total > cap

\* total + prefixLines[i].length > maxPrefixLength
PrefixExceedsCap(total, lineLength, cap) == total + lineLength > cap

\* totalSuffix + suffixLines[i].length > maxSuffixLength
SuffixExceedsCap(total, lineLength, cap) == total + lineLength > cap

\* the backward walk from line i (0-based); yields startLine
RECURSIVE PrefixStartLine(_, _, _, _, _)
PrefixStartLine(prefixLines, cap, i, total, startLine) ==
    IF i < 0 THEN startLine
    ELSE IF PrefixExceedsCap(total, Len(prefixLines[i + 1]), cap) THEN startLine
    ELSE PrefixStartLine(prefixLines, cap, i - 1,
                         total + Len(prefixLines[i + 1]), i)

TruncatedPrefix(prefixLines, offset, cap) ==
    IF offset > cap
    THEN LET startLine ==
                 PrefixStartLine(prefixLines, cap, Len(prefixLines) - 1, 0, Len(prefixLines))
         IN join(SubSeq(prefixLines, startLine + 1, Len(prefixLines)))
    ELSE join(prefixLines)

\* the forward walk from line i (0-based); yields endLine
RECURSIVE SuffixEndLine(_, _, _, _, _)
SuffixEndLine(suffixLines, cap, i, totalSuffix, endLine) ==
    IF i >= Len(suffixLines) THEN endLine
    ELSE IF SuffixExceedsCap(totalSuffix, Len(suffixLines[i + 1]), cap) THEN endLine
    ELSE SuffixEndLine(suffixLines, cap, i + 1,
                       totalSuffix + Len(suffixLines[i + 1]), i + 1)

TruncatedSuffix(suffixLines, cap) ==
    join(SubSeq(suffixLines, 1, SuffixEndLine(suffixLines, cap, 0, 0, 0)))

\* the range ending at the cursor, whatever the suffix
ContextRangeToCursor(doc, offset, prefix, suffix) ==
    [start |-> positionAt(doc, offset - Len(prefix)),
     end   |-> positionAt(doc, offset)]

\* new vscode.Range(positionAt(offset - prefix.length), positionAt(offset + suffix.length))
ContextRange(doc, offset, prefix, suffix) ==
    [start |-> positionAt(doc, offset - Len(prefix)),
     end   |-> positionAt(doc, offset + Len(suffix))]

getCurrentDocContext(doc, pos, maxPrefix, maxSuffix, ctx) ==
    LET offset         == offsetAt(doc, pos)
        completePrefix == completePrefixOf(doc, pos)
        completeSuffix == completeSuffixOf(doc, pos)
        patched        == PatchedPrefix(completePrefix, ctx, pos)
        prefixLines    == lines(patched)
        suffixLines    == lines(completeSuffix)
        prefix         == TruncatedPrefix(prefixLines, offset, maxPrefix)
        suffix         == TruncatedSuffix(suffixLines, maxSuffix)
    IN [prefix            |-> prefix,
        suffix            |-> suffix,
        contextRange      |-> ContextRange(doc, offset, prefix, suffix),
        currentLinePrefix |-> prefixLines[Len(prefixLines)],
        currentLineSuffix |-> suffixLines[1],
        semanticContext   |->
            join(getSemanticContextWithinDocument(doc, pos, SemanticWindow).semanticContext),
        injectedPrefix    |-> InjectedPrefix(completePrefix, patched, ctx)]

-----------------------------------------------------------------------------
(* Specification of the context window builder *)

DocChars == {"a", NL}
CompletionChars == {"a", "b", NL}

BuilderDocuments == {lines(t) : t \in SeqsUpTo(DocChars, MaxDocLen)}

ValidPositions(doc) ==
    {p \in [line : 0..(Len(doc) - 1), character : 0..MaxDocLen] :
         p.character <= Len(doc[p.line + 1])}

\* a SelectedCompletionInfo whose range starts on the cursor's line, at or
\* before the cursor
Contexts(pos) ==
    {NoContext} \cup
    {[selected |-> TRUE, character |-> c, text |-> t] :
         c \in 0..pos.character, t \in SeqsUpTo(CompletionChars, MaxTextLen)}

Init ==
    /\ pc = "start"
    /\ document \in BuilderDocuments
    /\ position \in ValidPositions(document)
    /\ maxPrefixLength \in 1..MaxCap
    /\ maxSuffixLength \in 1..MaxCap
    /\ context \in Contexts(position)
    /\ completePrefixWithContextCompletion = <<>>
    /\ docContext = NoDocContext
    /\ SearchIdle
    /\ SimilarityIdle

GetCurrentDocContext ==
    /\ pc = "start"
    /\ completePrefixWithContextCompletion' =
           PatchedPrefix(completePrefixOf(document, position), context, position)
    /\ docContext' = getCurrentDocContext(document, position, maxPrefixLength,
                                          maxSuffixLength, context)
    /\ pc' = "done"
    /\ UNCHANGED <<document, position, maxPrefixLength, maxSuffixLength, context>>
    /\ UNCHANGED <<searchVars, similarityVars>>

Next == GetCurrentDocContext

Spec == Init /\ [][Next]_vars

-----------------------------------------------------------------------------
(* Properties of getCurrentDocContext *)

offset == offsetAt(document, position)
completePrefix == completePrefixOf(document, position)
completeSuffix == completeSuffixOf(document, position)

IsSuffix(s, t) == Len(s) <= Len(t) /\ SubSeq(t, Len(t) - Len(s) + 1, Len(t)) = s

RECURSIVE SumLen(_)
SumLen(ls) == IF ls = <<>> THEN 0 ELSE Len(ls[1]) + SumLen(Tail(ls))

RECURSIVE LongestLine(_)
LongestLine(ls) == IF ls = <<>> THEN 0 ELSE Max(Len(ls[1]), LongestLine(Tail(ls)))

Newlines(s) == Cardinality({i \in 1..Len(s) : s[i] = NL})

\* C1 as stated: the contextRange starts exactly len(prefix) characters before
\* the cursor offset and ends exactly len(suffix) characters after it, so it
\* spans len(prefix) + len(suffix) characters, for every input.
C1_RangeSpansPrefixAndSuffix ==
    pc = "done" =>
        /\ offsetAt(document, docContext.contextRange.start)
               = offset - Len(docContext.prefix)
        /\ offsetAt(document, docContext.contextRange.end)
               = offset + Len(docContext.suffix)
        /\ offsetAt(document, docContext.contextRange.end)
             - offsetAt(document, docContext.contextRange.start)
               = Len(docContext.prefix) + Len(docContext.suffix)

\* C1 amended: the contextRange starts min(len(prefix), offset) characters
\* before the cursor offset (the start is clamped to the document start when the
\* patched prefix is longer than the offset) and ends exactly len(suffix)
\* characters after it; without a SelectedCompletionInfo len(prefix) <= offset,
\* so the range spans exactly len(prefix) + len(suffix) characters.
C1_RangeSpansClampedPrefixAndSuffix ==
    pc = "done" =>
        /\ offsetAt(document, docContext.contextRange.start)
               = offset - Min(Len(docContext.prefix), offset)
        /\ offsetAt(document, docContext.contextRange.end)
               = offset + Len(docContext.suffix)
        /\ ~context.selected =>
               /\ Len(docContext.prefix) <= offset
               /\ offsetAt(document, docContext.contextRange.end)
                    - offsetAt(document, docContext.contextRange.start)
                      = Len(docContext.prefix) + Len(docContext.suffix)

C1_Witness ==
    /\ pc = "done"
    /\ context.selected
    /\ Len(docContext.prefix) > offset
    /\ offset > 0
    /\ docContext.suffix # <<>>
    /\ docContext.contextRange.start = [line |-> 0, character |-> 0]
    /\ docContext.contextRange.end.line > position.line

C3_InjectedPrefixIsSuffixOfPrefix ==
    (pc = "done" /\ docContext.injectedPrefix # Null) =>
        IsSuffix(docContext.injectedPrefix, docContext.prefix)

\* C4: with a SelectedCompletionInfo of text T whose range starts d >= 0
\* characters before the cursor, the patched pre-cursor text is the complete
\* pre-cursor text with its last d characters replaced by T, and injectedPrefix
\* is the part of it beyond the original pre-cursor text's length, or 'none'
\* when that part is empty.
C4_SpliceReplacesLastD ==
    (pc = "done" /\ context.selected) =>
        LET d        == position.character - context.character
            expected == SubSeq(completePrefix, 1, Len(completePrefix) - d) \o context.text
            delta    == SubSeq(expected, Len(completePrefix) + 1, Len(expected))
        IN /\ completePrefixWithContextCompletion = expected
           /\ docContext.injectedPrefix = (IF delta = <<>> THEN Null ELSE delta)

\* C5: injectedPrefix is never the empty string, and it is 'none' whenever no
\* SelectedCompletionInfo is supplied.
C5_InjectedPrefixNeverEmpty ==
    pc = "done" =>
        /\ docContext.injectedPrefix # <<>>
        /\ ~context.selected => docContext.injectedPrefix = Null

C5_Witness ==
    /\ pc = "done"
    /\ context.selected
    /\ context.text # <<>>
    /\ Len(completePrefixWithContextCompletion) <= Len(completePrefix)
    /\ docContext.injectedPrefix = Null

====
